---------------------------- MODULE Spec2Model ----------------------------
(***************************************************************************)
(* Model of the SEO content pipeline (phelitec/SEOracle2):                 *)
(*   - seo_generator/utils.py: extract_json_from_text, load_keywords,      *)
(*     select_keywords                                                     *)
(*   - seo_generator/content_generator.py: SEOContentGenerator.run and     *)
(*     _process_keyword with its four generation stages                    *)
(*   - seo_generator/wordpress_api.py: get_category_id, publish_post       *)
(*                                                                         *)
(* A text (a Python str) is a sequence of tokens.  A token is a record     *)
(* [t, k, v]: t is the token class, k a JSON member key, v a string        *)
(* payload.  The classes are                                               *)
(*   "fencejson"  the characters ```json                                   *)
(*   "fence"      the characters ```                                       *)
(*   "lbrace" "rbrace" "lbrack" "rbrack" "comma"   { } [ ] ,               *)
(*   "kv"         a member  "k": "v"  with a string value                  *)
(*   "key"        a member key  "k":  (its value follows)                  *)
(*   "str"        a JSON string literal "v"                                *)
(*   "num"        a JSON number literal                                    *)
(*   "ws"         a run of whitespace                                      *)
(*   "txt"        a run of prose (no brace, no backtick, not JSON)         *)
(***************************************************************************)
EXTENDS Integers, Sequences, FiniteSets, TLC

VARIABLES
    \* ---- extract_json_from_text, run step by step on one input ----
    text,        \* the argument `text`
    xpc,         \* position in extract_json_from_text
    xres,        \* the returned value (PyNone until it returns)
    xtried,      \* the sources whose json.loads was attempted, in order
    \* ---- load_keywords, run step by step on one keyword store ----
    keywords_file, \* the store at the path `keywords_file`
    lpc,           \* position in load_keywords
    encoding,      \* the loop variable `encoding`, as an index into encodings
    lines,         \* the local `lines`
    loaded,        \* the returned list (<<>> until it returns)
    lexc,          \* the exception load_keywords raised ("" when none)
    opened,        \* history: the encodings the store was opened with, in order
    \* ---- main ----
    config_file,   \* the configuration file at args.config
    args_posts,    \* args.posts (0 when --posts is not given)
    mpc,           \* position in main
    merr,          \* the exception main caught and logged ("" when none)
    \* ---- SEOContentGenerator ----
    keywords,         \* self.keywords, as load_keywords returned them
    posts_per_run,    \* config["content"]["posts_per_run"]
    target_category,  \* config["content"]["target_category"]
    selected,         \* run: selected_keywords
    idx,              \* run: i + 1, the 1-based position of the keyword in hand
    pc,               \* position in run / _process_keyword
    content_plan,     \* _process_keyword: content_plan
    seo_metadata,     \* _process_keyword: seo_metadata
    article,          \* _process_keyword: article
    reviewed_article, \* _process_keyword: reviewed_article
    category_id,      \* _process_keyword: category_id (NoCategory is None)
    post_data,        \* publish_post: the payload handed to requests.post
    exc,              \* the exception in flight ("" when none)
    response,         \* the answer of the last generation call (its text is `content`)
    calls,            \* history: the calls made for the keyword in hand
    runlog            \* history: what run did, keyword by keyword

xvars == <<text, xpc, xres, xtried>>
gvars == <<keywords, posts_per_run, target_category, selected, idx, pc,
           content_plan, seo_metadata, article, reviewed_article, category_id,
           post_data, exc, response, calls, runlog>>
mvars == <<config_file, args_posts, mpc, merr>>
lvars == <<keywords_file, lpc, encoding, lines, loaded, lexc, opened>>
vars == <<xvars, lvars, mvars, gvars>>

----------------------------------------------------------------------------
(* Bounds *)

\* longest input text, in tokens, that the extractor is run on
MaxLen == 5
\* most keywords in the keyword store
MaxKeywords == 3
\* largest posts_per_run
MaxPosts == 3
\* posts_per_run ranges down to -MaxNegPosts
MaxNegPosts == 1
\* most lines in the keyword store
MaxLines == 2
\* longest line of the keyword store, in chunks
MaxLineLen == 2

----------------------------------------------------------------------------
(* Tokens and Python values *)

Tok(t, k, v) == [t |-> t, k |-> k, v |-> v]

FenceJson == Tok("fencejson", "", "")
Fence     == Tok("fence", "", "")
LBrace    == Tok("lbrace", "", "")
RBrace    == Tok("rbrace", "", "")
LBrack    == Tok("lbrack", "", "")
RBrack    == Tok("rbrack", "", "")
Comma     == Tok("comma", "", "")
Ws        == Tok("ws", "", "")
Num       == Tok("num", "", "1")
KV(k, v)  == Tok("kv", k, v)
Key(k)    == Tok("key", k, "")
Str(v)    == Tok("str", "", v)
Txt(v)    == Tok("txt", "", v)

\* A Python value: kind is "none", "str", "num", "list" or "dict".
PyNone      == [kind |-> "none", val |-> <<>>]
PyNum       == [kind |-> "num", val |-> <<>>]
PyStr(s)    == [kind |-> "str", val |-> s]
PyList(xs)  == [kind |-> "list", val |-> xs]
PyDict(f)   == [kind |-> "dict", val |-> f]

EmptyDict == PyDict(<<>>)

\* The str a JSON string literal with payload v denotes ("" is the empty str).
StrText(v) == IF v = "" THEN <<>> ELSE <<Txt(v)>>

\* d[k] = v on a dict's function (a later duplicate key replaces an earlier one)
Put(f, k, v) == [x \in (DOMAIN f) \cup {k} |-> IF x = k THEN v ELSE f[x]]

----------------------------------------------------------------------------
(* json.loads on a token sequence *)

RECURSIVE SkipWs(_, _)
SkipWs(s, i) ==
    IF i <= Len(s) /\ s[i].t = "ws" THEN SkipWs(s, i + 1) ELSE i

ParseFail == [ok |-> FALSE, val |-> PyNone, next |-> 0]
ParseOk(v, n) == [ok |-> TRUE, val |-> v, next |-> n]

RECURSIVE ParseValue(_, _)
RECURSIVE ParseMembers(_, _, _, _)
RECURSIVE ParseElems(_, _, _, _)

\* after a member: "}" ends the object, "," asks for another member
ParseAfterMember(s, i, acc) ==
    LET j == SkipWs(s, i) IN
    IF j > Len(s) THEN ParseFail
    ELSE IF s[j].t = "rbrace" THEN ParseOk(PyDict(acc), j + 1)
    ELSE IF s[j].t = "comma" THEN ParseMembers(s, j + 1, acc, FALSE)
    ELSE ParseFail

ParseMembers(s, i, acc, first) ==
    LET j == SkipWs(s, i) IN
    IF j > Len(s) THEN ParseFail
    ELSE IF s[j].t = "rbrace" /\ first THEN ParseOk(PyDict(acc), j + 1)
    ELSE IF s[j].t = "kv"
         THEN ParseAfterMember(s, j + 1, Put(acc, s[j].k, PyStr(StrText(s[j].v))))
    ELSE IF s[j].t = "key"
         THEN LET r == ParseValue(s, j + 1) IN
              IF r.ok THEN ParseAfterMember(s, r.next, Put(acc, s[j].k, r.val))
              ELSE ParseFail
    ELSE ParseFail

ParseAfterElem(s, i, acc) ==
    LET j == SkipWs(s, i) IN
    IF j > Len(s) THEN ParseFail
    ELSE IF s[j].t = "rbrack" THEN ParseOk(PyList(acc), j + 1)
    ELSE IF s[j].t = "comma" THEN ParseElems(s, j + 1, acc, FALSE)
    ELSE ParseFail

ParseElems(s, i, acc, first) ==
    LET j == SkipWs(s, i) IN
    IF j > Len(s) THEN ParseFail
    ELSE IF s[j].t = "rbrack" /\ first THEN ParseOk(PyList(acc), j + 1)
    ELSE LET r == ParseValue(s, j) IN
         IF r.ok THEN ParseAfterElem(s, r.next, Append(acc, r.val))
         ELSE ParseFail

ParseValue(s, i) ==
    LET j == SkipWs(s, i) IN
    IF j > Len(s) THEN ParseFail
    ELSE IF s[j].t = "num" THEN ParseOk(PyNum, j + 1)
    ELSE IF s[j].t = "str" THEN ParseOk(PyStr(StrText(s[j].v)), j + 1)
    ELSE IF s[j].t = "lbrace" THEN ParseMembers(s, j + 1, <<>>, TRUE)
    ELSE IF s[j].t = "lbrack" THEN ParseElems(s, j + 1, <<>>, TRUE)
    ELSE ParseFail

\* json.loads(s): one value, surrounded by optional whitespace, and nothing
\* else; ok = FALSE stands for json.JSONDecodeError.
JsonLoads(s) ==
    LET r == ParseValue(s, 1) IN
    IF r.ok /\ SkipWs(s, r.next) > Len(s)
    THEN [ok |-> TRUE, val |-> r.val]
    ELSE [ok |-> FALSE, val |-> PyNone]

----------------------------------------------------------------------------
(* The two regular expressions of extract_json_from_text *)

MinOf(S) == CHOOSE m \in S : \A n \in S : m <= n
MaxOf(S) == CHOOSE m \in S : \A n \in S : n <= m

IsWs(tok) == tok.t = "ws"
IsFenceJson(tok) == tok.t = "fencejson"
\* the characters ``` occur in a plain fence and at the start of ```json
IsBackticks(tok) == tok.t \in {"fence", "fencejson"}
IsLBrace(tok) == tok.t = "lbrace"
IsRBrace(tok) == tok.t = "rbrace"

\* where ```json, ```, { and } occur in s
FenceJsonAt(s) == {i \in 1..Len(s) : IsFenceJson(s[i])}
BackticksAt(s) == {i \in 1..Len(s) : IsBackticks(s[i])}
LBraceAt(s) == {i \in 1..Len(s) : IsLBrace(s[i])}
RBraceAt(s) == {i \in 1..Len(s) : IsRBrace(s[i])}

\* what \s* ... \s* around a lazy group leaves of the interior
RECURSIVE StripWs(_)
StripWs(s) ==
    IF s = <<>> THEN s
    ELSE IF IsWs(Head(s)) THEN StripWs(Tail(s))
    ELSE IF IsWs(s[Len(s)]) THEN StripWs(SubSeq(s, 1, Len(s) - 1))
    ELSE s

NoMatch == [found |-> FALSE, group |-> <<>>]
Match(g) == [found |-> TRUE, group |-> g]

\* the group taken greedily, up to the last ``` of the text
FencedGreedy(s) ==
    LET opens == FenceJsonAt(s) IN
    IF opens = {} THEN NoMatch
    ELSE LET i == MinOf(opens)
             closes == {j \in BackticksAt(s) : j > i} IN
         IF closes = {} THEN NoMatch
         ELSE Match(StripWs(SubSeq(s, i + 1, MaxOf(closes) - 1)))

\* re.search(r'```json\s*([\s\S]*?)\s*```', text): the leftmost ```json, a lazy
\* group up to the first ``` after it, whitespace trimmed at both ends
FencedMatch(s) ==
    LET opens == FenceJsonAt(s) IN
    IF opens = {} THEN NoMatch
    ELSE LET i == MinOf(opens)
             closes == {j \in BackticksAt(s) : j > i} IN
         IF closes = {} THEN NoMatch
         ELSE Match(StripWs(SubSeq(s, i + 1, MinOf(closes) - 1)))

\* re.search(r'({[\s\S]*})', text): the leftmost {, greedily to the last }
BraceMatch(s) ==
    LET opens == LBraceAt(s) IN
    IF opens = {} THEN NoMatch
    ELSE LET i == MinOf(opens)
             closes == {j \in RBraceAt(s) : j > i} IN
         IF closes = {} THEN NoMatch
         ELSE Match(SubSeq(s, i, MaxOf(closes)))

\* the text trimmed instead of verbatim
RawContentStripped(s) == PyDict([k \in {"raw_content"} |-> PyStr(StripWs(s))])

\* lines 42-44: the sentinel fallback
RawContent(s) == PyDict([k \in {"raw_content"} |-> PyStr(s)])

----------------------------------------------------------------------------
(* extract_json_from_text as a function *)

\* the brace span tried before the fenced block
ExtractBraceFirst(s) ==
    LET b == BraceMatch(s)
        f == FencedMatch(s) IN
    IF b.found /\ JsonLoads(b.group).ok THEN JsonLoads(b.group).val
    ELSE IF f.found /\ JsonLoads(f.group).ok THEN JsonLoads(f.group).val
    ELSE IF JsonLoads(s).ok THEN JsonLoads(s).val
    ELSE RawContent(s)

\* lines 23-44, as the generator calls it
extract_json_from_text(s) ==
    LET f == FencedMatch(s)
        b == BraceMatch(s) IN
    IF f.found /\ JsonLoads(f.group).ok THEN JsonLoads(f.group).val
    ELSE IF b.found /\ JsonLoads(b.group).ok THEN JsonLoads(b.group).val
    ELSE IF JsonLoads(s).ok THEN JsonLoads(s).val
    ELSE RawContent(s)

----------------------------------------------------------------------------
(* extract_json_from_text step by step *)

\* the tokens the extractor is exercised on
Alphabet ==
    {FenceJson, Fence, LBrace, RBrace, KV("title", "A"), Num, Ws, Txt("p")}

\* two number literals with nothing between them would read as one number
Lexical(s) == \A n \in 1..(Len(s) - 1) : ~(s[n].t = "num" /\ s[n + 1].t = "num")

Texts == {s \in UNION {[1..n -> Alphabet] : n \in 0..MaxLen} : Lexical(s)}

\* lines 24-29
TryFenced ==
    /\ xpc = "fenced"
    /\ LET m == FencedMatch(text) IN
       IF m.found
       THEN /\ xtried' = Append(xtried, "fenced")
            /\ IF JsonLoads(m.group).ok
               THEN xpc' = "returned" /\ xres' = JsonLoads(m.group).val
               ELSE xpc' = "brace" /\ xres' = xres
       ELSE xpc' = "brace" /\ xres' = xres /\ xtried' = xtried
    /\ UNCHANGED <<text, lvars, mvars, gvars>>

\* lines 32-37
TryBrace ==
    /\ xpc = "brace"
    /\ LET m == BraceMatch(text) IN
       IF m.found
       THEN /\ xtried' = Append(xtried, "brace")
            /\ IF JsonLoads(m.group).ok
               THEN xpc' = "returned" /\ xres' = JsonLoads(m.group).val
               ELSE xpc' = "whole" /\ xres' = xres
       ELSE xpc' = "whole" /\ xres' = xres /\ xtried' = xtried
    /\ UNCHANGED <<text, lvars, mvars, gvars>>

\* lines 40-44
TryWhole ==
    /\ xpc = "whole"
    /\ xtried' = Append(xtried, "whole")
    /\ xpc' = "returned"
    /\ xres' = IF JsonLoads(text).ok THEN JsonLoads(text).val ELSE RawContent(text)
    /\ UNCHANGED <<text, lvars, mvars, gvars>>


----------------------------------------------------------------------------
(* Python helpers used by the generator *)

\* bool(v)
Truthy(v) ==
    IF v.kind = "dict" THEN DOMAIN v.val # {}
    ELSE IF v.kind \in {"str", "list"} THEN v.val # <<>>
    ELSE v.kind = "num"

\* d.get(k, default) on a dict
Get(d, k, default) == IF k \in DOMAIN d.val THEN d.val[k] ELSE default

\* `k in v` for a list (an element equal to the str k) or a str (k occurs in it)
Contains(v, k) ==
    IF v.kind = "list" THEN \E n \in 1..Len(v.val) : v.val[n] = PyStr(<<Txt(k)>>)
    ELSE \E n \in 1..Len(v.val) : v.val[n] = Txt(k)

\* `for x in v` is possible
Iterable(v) == v.kind \in {"str", "list", "dict"}

\* ", ".join(v) is possible: an iterable of str
Joinable(v) ==
    \/ v.kind \in {"str", "dict"}
    \/ v.kind = "list" /\ \A n \in 1..Len(v.val) : v.val[n].kind = "str"

Return(v) == [raised |-> FALSE, exc |-> "", val |-> v]
Raise(e)  == [raised |-> TRUE, exc |-> e, val |-> PyNone]

\* f"Como {keyword} em {current_year}"
DefaultTitle(kw) == PyStr(<<Txt("Como"), Txt(kw), Txt("em <ano>")>>)

----------------------------------------------------------------------------
(* utils.load_keywords.  A line of the store is a sequence of chunks: " "  *)
(* is a run of whitespace (the line terminator included), "#" the comment  *)
(* marker, any other chunk a run of characters with neither.               *)

IsSpace(c) == c = " "

\* str.strip()
RECURSIVE Strip(_)
Strip(line) ==
    IF line = <<>> THEN line
    ELSE IF IsSpace(Head(line)) THEN Strip(Tail(line))
    ELSE IF IsSpace(line[Len(line)]) THEN Strip(SubSeq(line, 1, Len(line) - 1))
    ELSE line

\* str.startswith("#")
StartsWithHash(line) == line # <<>> /\ Head(line) = "#"

\* line 90: `line.strip() and not line.strip().startswith("#")`
Keeps(line) == Strip(line) # <<>> /\ ~StartsWithHash(Strip(line))

\* the lines kept as they stand in the store, not trimmed
FilterUntrimmed(ls) == SelectSeq(ls, Keeps)

\* line 90: the list comprehension
RECURSIVE FilterLines(_)
FilterLines(ls) ==
    IF ls = <<>> THEN <<>>
    ELSE IF Keeps(Head(ls)) THEN <<Strip(Head(ls))>> \o FilterLines(Tail(ls))
    ELSE FilterLines(Tail(ls))

\* line 74
encodings == <<"utf-8", "latin-1", "cp1252", "iso-8859-1">>

\* the store: whether the path exists, whether it can be created, what its
\* bytes are ("utf8": valid UTF-8; "latin": not valid UTF-8; "c1": not valid
\* UTF-8 and with a byte cp1252 does not define) and the lines they decode to
Store(exists, creatable, bytes, ls) ==
    [exists |-> exists, creatable |-> creatable, bytes |-> bytes, lines |-> ls]

\* lines 63-67: the store written when the path does not exist
ExampleStore ==
    Store(TRUE, TRUE, "utf8",
          <<<<"#", " ", "Coloque suas palavras-chave aqui (uma por linha)", " ">>,
            <<"#", " ", "Voce pode adicionar contexto apos dois-pontos", " ">>,
            <<"marketing digital: estrategias para pequenas empresas", " ">>,
            <<"seo para iniciantes", " ">>>>)

\* open(..., encoding=enc) and readlines() raise no UnicodeDecodeError: every
\* byte sequence is valid latin-1 (iso-8859-1 is the same codec)
Decodes(store, enc) ==
    CASE enc = "utf-8" -> store.bytes = "utf8"
      [] enc = "latin-1" -> TRUE
      [] enc = "cp1252" -> store.bytes # "c1"
      [] enc = "iso-8859-1" -> TRUE

\* lines 61-71
CheckExists ==
    /\ lpc = "exists"
    /\ IF keywords_file.exists
       THEN /\ lpc' = "read"
            /\ UNCHANGED <<keywords_file, lexc>>
       ELSE IF keywords_file.creatable
       THEN /\ keywords_file' = ExampleStore
            /\ lpc' = "read"
            /\ lexc' = lexc
       ELSE /\ lpc' = "raised"
            /\ lexc' = "FileNotFoundError"
            /\ keywords_file' = keywords_file
    /\ UNCHANGED <<encoding, lines, loaded, opened, xvars, mvars, gvars>>

\* lines 77-87: one turn of the loop over the encodings
ReadAttempt ==
    /\ lpc = "read"
    /\ opened' = Append(opened, encodings[encoding])
    /\ IF Decodes(keywords_file, encodings[encoding])
       THEN /\ lines' = keywords_file.lines
            /\ lpc' = "filter"
            /\ UNCHANGED <<encoding, lexc>>
       ELSE IF encoding = Len(encodings)
       THEN /\ lpc' = "raised"
            /\ lexc' = "ValueError"
            /\ UNCHANGED <<encoding, lines>>
       ELSE /\ encoding' = encoding + 1
            /\ UNCHANGED <<lpc, lexc, lines>>
    /\ UNCHANGED <<keywords_file, loaded, xvars, mvars, gvars>>

\* the list returned without the check that it holds a keyword
FilterAndReturnUnchecked ==
    /\ lpc = "filter"
    /\ lpc' = "returned"
    /\ loaded' = FilterLines(lines)
    /\ UNCHANGED <<keywords_file, encoding, lines, lexc, opened, xvars, mvars, gvars>>

\* lines 89-96
FilterAndReturn ==
    /\ lpc = "filter"
    /\ IF FilterLines(lines) = <<>>
       THEN /\ lpc' = "raised"
            /\ lexc' = "ValueError"
            /\ loaded' = loaded
       ELSE /\ lpc' = "returned"
            /\ loaded' = FilterLines(lines)
            /\ lexc' = lexc
    /\ UNCHANGED <<keywords_file, encoding, lines, opened, xvars, mvars, gvars>>

----------------------------------------------------------------------------
(* utils.select_keywords *)

Min(a, b) == IF a <= b THEN a ELSE b
Max(a, b) == IF a >= b THEN a ELSE b

\* kws[:n] of Python: a negative n counts from the end
SliceTo(kws, n) ==
    IF n >= 0 THEN SubSeq(kws, 1, Min(n, Len(kws)))
    ELSE SubSeq(kws, 1, Max(Len(kws) + n, 0))

\* the keywords taken round and round until count of them are selected
SelectCycling(kws, count) ==
    [n \in 1..Max(count, 0) |-> kws[((n - 1) % Len(kws)) + 1]]

\* one keyword too many
SelectOneMore(kws, count) == SliceTo(kws, Min(count + 1, Len(kws)))

\* line 111
select_keywords(kws, count) == SliceTo(kws, Min(count, Len(kws)))

----------------------------------------------------------------------------
(* The four generation stages.  resp is the chat-completion call's outcome: *)
(* [ok |-> FALSE] when the call raised, else the text the model returned.   *)

CallFailed    == [ok |-> FALSE, content |-> <<>>]
CallReturned(c) == [ok |-> TRUE, content |-> c]
Responses(outs) == {CallFailed} \cup {CallReturned(c) : c \in outs}

PlanFieldsList == {"title_suggestions", "subtopics", "secondary_keywords",
                   "visual_elements", "internal_links"}
PlanFieldsStr  == {"friendly_url", "meta_description"}

\* the Portuguese key each standardized field is first looked up under
PtKey(field) ==
    CASE field = "title_suggestions"  -> "titulos"
      [] field = "subtopics"          -> "subtopicos"
      [] field = "secondary_keywords" -> "palavras_chave_secundarias"
      [] field = "visual_elements"    -> "elementos_visuais"
      [] field = "internal_links"     -> "links_internos"
      [] field = "friendly_url"       -> "url_amigavel"
      [] field = "meta_description"   -> "meta_descricao"

\* the English key looked up first
StandardizedPlanEnglishFirst(plan) ==
    PyDict([f \in PlanFieldsList \cup PlanFieldsStr |->
              Get(plan, f,
                  Get(plan, PtKey(f), IF f \in PlanFieldsList THEN PyList(<<>>)
                                      ELSE PyStr(<<>>)))])

\* lines 167-175: the standardized plan
StandardizedPlan(plan) ==
    PyDict([f \in PlanFieldsList \cup PlanFieldsStr |->
              Get(plan, PtKey(f),
                  Get(plan, f, IF f \in PlanFieldsList THEN PyList(<<>>)
                               ELSE PyStr(<<>>)))])

\* a failed plan call swallowed: an all-default plan is returned
GeneratePlanSwallow(resp) ==
    IF resp.ok /\ extract_json_from_text(resp.content).kind = "dict"
    THEN Return(StandardizedPlan(extract_json_from_text(resp.content)))
    ELSE Return(StandardizedPlan(EmptyDict))

\* _generate_content_plan: any exception of the call, of the extraction or of
\* plan.get (on a value that is no dict) is re-raised as Exception
GeneratePlan(resp) ==
    IF ~resp.ok THEN Raise("Exception")
    ELSE LET plan == extract_json_from_text(resp.content) IN
         IF plan.kind # "dict" THEN Raise("Exception")
         ELSE Return(StandardizedPlan(plan))

StandardizedSeo(seo_data) ==
    PyDict([f \in {"seo_title", "meta_description", "friendly_url"} |->
        CASE f = "seo_title" ->
                Get(seo_data, "titulo_seo", Get(seo_data, "seo_title", PyStr(<<>>)))
          [] f = "meta_description" ->
                Get(seo_data, "meta_description", PyStr(<<>>))
          [] f = "friendly_url" ->
                Get(seo_data, "url_amigavel", Get(seo_data, "friendly_url", PyStr(<<>>)))])

\* the except branch of _generate_seo_metadata (lines 242-246)
SeoFallback(kw, plan) ==
    LET ts == plan.val["title_suggestions"]
        rest(title) ==
            PyDict([f \in {"seo_title", "meta_description", "friendly_url"} |->
                CASE f = "seo_title" -> title
                  [] f = "meta_description" -> plan.val["meta_description"]
                  [] f = "friendly_url" -> plan.val["friendly_url"]])
    IN  IF ~Truthy(ts) THEN Return(rest(DefaultTitle(kw)))
        ELSE IF ts.kind = "list" THEN Return(rest(ts.val[1]))
        ELSE IF ts.kind = "str" THEN Return(rest(PyStr(<<ts.val[1]>>)))
        ELSE IF ts.kind = "dict" THEN Raise("KeyError")
        ELSE Raise("TypeError")

\* _generate_seo_metadata
GenerateSeoMetadata(kw, plan, resp) ==
    IF resp.ok /\ extract_json_from_text(resp.content).kind = "dict"
    THEN Return(StandardizedSeo(extract_json_from_text(resp.content)))
    ELSE SeoFallback(kw, plan)

\* a failed draft call swallowed: an article with no content is returned
GenerateArticleSwallow(plan, kw, seo, resp) ==
    Return(PyDict([f \in {"seo_title", "content", "meta_description", "friendly_url"} |->
             IF f = "content" THEN PyStr(resp.content) ELSE seo.val[f]]))

\* lines 272-275: the plan's lists can be written into the prompt
PromptBuilds(plan) ==
    /\ Iterable(plan.val["subtopics"])
    /\ Joinable(plan.val["secondary_keywords"])
    /\ Truthy(plan.val["visual_elements"]) => Iterable(plan.val["visual_elements"])
    /\ Truthy(plan.val["internal_links"]) => Iterable(plan.val["internal_links"])

\* _generate_article: the prompt is built outside the try (lines 264-334), the
\* call is inside it (lines 336-354)
GenerateArticle(plan, kw, seo, resp) ==
    IF ~PromptBuilds(plan) THEN Raise("TypeError")
    ELSE IF ~resp.ok THEN Raise("Exception")
    ELSE Return(PyDict([f \in {"seo_title", "content", "meta_description", "friendly_url"} |->
                  IF f = "content" THEN PyStr(resp.content) ELSE seo.val[f]]))

ReviewKeys == {"meta_description", "seo_title", "title", "friendly_url"}

\* lines 423-428
ReviewMerged(art, json_data, content) ==
    PyDict([f \in {"seo_title", "content", "meta_description", "friendly_url"} |->
        CASE f = "seo_title" ->
                Get(json_data, "seo_title", Get(json_data, "title", art.val["seo_title"]))
          [] f = "content" -> Get(json_data, "content", PyStr(content))
          [] OTHER -> Get(json_data, f, art.val[f])])

\* lines 431-436
ReviewContentOnly(art, content) ==
    PyDict([f \in {"seo_title", "content", "meta_description", "friendly_url"} |->
        IF f = "content" THEN PyStr(content) ELSE art.val[f]])

\* a failed review call propagated instead of caught
ReviewContentRaises(art, kw, resp) ==
    IF ~resp.ok THEN Raise("Exception")
    ELSE Return(ReviewContentOnly(art, resp.content))

\* _review_content: every exception inside the try returns the article as is
ReviewContent(art, kw, resp) ==
    IF ~resp.ok THEN Return(art)
    ELSE LET json_data == extract_json_from_text(resp.content) IN
         IF json_data.kind = "dict"
         THEN IF ReviewKeys \cap DOMAIN json_data.val # {}
              THEN Return(ReviewMerged(art, json_data, resp.content))
              ELSE Return(ReviewContentOnly(art, resp.content))
         ELSE IF json_data.kind \in {"list", "str"}
         THEN IF \E k \in ReviewKeys : Contains(json_data, k)
              THEN Return(art)              \* json_data.get: AttributeError, caught
              ELSE Return(ReviewContentOnly(art, resp.content))
         ELSE Return(art)                   \* `key in json_data`: TypeError, caught

----------------------------------------------------------------------------
(* wordpress_api.WordPressClient *)

\* category_id = None
NoCategory == 0

\* str.lower() on the category names of the model
Lower(name) ==
    CASE name \in {"Marketing", "MARKETING", "marketing"} -> "marketing"
      [] name \in {"Marketing Tips", "marketing tips"} -> "marketing tips"
      [] OTHER -> name

\* why a request of get_category_id or _create_category raises: the status
\* is an error (raise_for_status), the connection fails, or the body is not
\* the JSON expected (response.json(), category["name"], category_data["id"])
Failures == {"http_error", "connection_error", "malformed"}

RequestFailed(why) == [ok |-> FALSE, why |-> why, cats |-> <<>>, id |-> 0]
SearchReturned(cats) == [ok |-> TRUE, why |-> "", cats |-> cats, id |-> 0]
CreateReturned(id) == [ok |-> TRUE, why |-> "", cats |-> <<>>, id |-> id]

Category(id, name) == [id |-> id, name |-> name]

\* what GET /categories?search= may answer
SearchResponses ==
    {RequestFailed(why) : why \in Failures} \cup
    {SearchReturned(<<>>),
     SearchReturned(<<Category(4, "Marketing Tips")>>),
     SearchReturned(<<Category(4, "Marketing Tips"), Category(3, "MARKETING"),
                      Category(5, "Marketing")>>)}

\* what POST /categories may answer
CreateResponses == {RequestFailed(why) : why \in Failures} \cup {CreateReturned(9)}

\* _create_category
CreateCategory(name, cresp) == IF cresp.ok THEN cresp.id ELSE NoCategory

\* the names compared as they are written
FirstMatchExactCase(cats, name) ==
    LET hits == {n \in 1..Len(cats) : cats[n].name = name} IN
    IF hits = {} THEN 0 ELSE MinOf(hits)

\* the loop of get_category_id: the first case-insensitive name match
FirstMatch(cats, name) ==
    LET hits == {n \in 1..Len(cats) : Lower(cats[n].name) = Lower(name)} IN
    IF hits = {} THEN 0 ELSE MinOf(hits)

\* get_category_id
GetCategoryId(name, sresp, cresp) ==
    IF ~sresp.ok THEN NoCategory
    ELSE IF FirstMatch(sresp.cats, name) # 0
         THEN sresp.cats[FirstMatch(sresp.cats, name)].id
         ELSE CreateCategory(name, cresp)

\* the category left out of the payload
PostDataNoCategory(title, content, excerpt, cat) ==
    [title |-> title, content |-> content, status |-> "draft",
     excerpt |-> excerpt, comment_status |-> "open", categories |-> <<>>]

\* publish_post, lines 54-68: the payload (categories is <<>> when absent)
PostData(title, content, excerpt, cat) ==
    [title |-> title, content |-> content, status |-> "draft",
     excerpt |-> excerpt, comment_status |-> "open",
     categories |-> IF cat # NoCategory THEN <<cat>> ELSE <<>>]

NoPost == [title |-> PyNone, content |-> PyNone, status |-> "",
           excerpt |-> PyNone, comment_status |-> "", categories |-> <<>>]

\* what POST /posts may do: answer with a record that has an id, answer with
\* one that has none, answer an HTTP error status, or fail to connect
PostOutcomes == {"created", "no_id", "http_error", "connection_error"}

\* a record without an id returned as it came
PublishRaisesLenient(outcome) ==
    CASE outcome = "created" -> ""
      [] outcome = "http_error" -> "Exception"
      [] outcome = "connection_error" -> "ConnectionError"
      [] outcome = "no_id" -> ""

\* publish_post, lines 70-97: the exception raised ("" when it returns)
PublishRaises(outcome) ==
    CASE outcome = "created" -> ""
      [] outcome = "http_error" -> "Exception"
      [] outcome = "connection_error" -> "ConnectionError"
      [] outcome = "no_id" -> "Exception"

----------------------------------------------------------------------------
(* What the remote model may answer at each stage *)

PlanOutputs ==
    {<<Txt("Aqui esta o plano:"), FenceJson, Ws, LBrace,
       Key("titulos"), LBrack, Str("T1"), RBrack, Comma,
       Key("title_suggestions"), LBrack, Str("T2"), RBrack, Comma,
       KV("meta_descricao", "M1"), Comma, KV("friendly_url", "u1"),
       RBrace, Ws, Fence>>,
     <<Txt("plano em prosa")>>,
     <<LBrack, Str("T1"), RBrack>>,
     <<LBrace, Key("titulos"), LBrace, KV("principal", "T1"), RBrace, RBrace>>,
     <<LBrace, Key("subtopicos"), Num, RBrace>>}

MetaOutputs ==
    {<<FenceJson, Ws, LBrace, KV("titulo_seo", "S1"), Comma,
       KV("meta_description", "D1"), Comma, KV("url_amigavel", "u1"),
       RBrace, Ws, Fence>>,
     <<Txt("metadados em prosa")>>,
     <<Num>>}

DraftOutputs == {<<Txt("<h2>artigo</h2>")>>, <<>>}

ReviewOutputs ==
    {<<Txt("<h2>revisado</h2>")>>,
     <<LBrace, KV("title", "R1"), Comma, KV("content", "C1"), RBrace>>,
     <<LBrack, Str("title"), RBrack>>}

\* the keyword on line n of the keyword store
KeywordAt(n) == IF n % 2 = 1 THEN "seo para iniciantes" ELSE "marketing digital"

----------------------------------------------------------------------------
(* SEOContentGenerator.run and _process_keyword *)

Event(e, n, kw, at) == [e |-> e, n |-> n, kw |-> kw, at |-> at]
\* a call of the history: api tells whether the remote call returned an
\* answer, ret whether the stage returned to _process_keyword
\* how tells how a request to the content API ended ("" for the other calls)
Request(stage, api, ret, how) == [stage |-> stage, api |-> api, ret |-> ret, how |-> how]
Call(stage, api, ret) == Request(stage, api, ret, "")

\* the requests get_category_id issues: the search, and the create when the
\* search returned no match; every failure is logged and answered alike
CategoryCalls(name, sresp, cresp) ==
    IF sresp.ok /\ FirstMatch(sresp.cats, name) = 0
    THEN <<Request("category_search", TRUE, TRUE, "no_match"),
           Request("category_create", cresp.ok, TRUE,
                   IF cresp.ok THEN "created" ELSE "failed")>>
    ELSE <<Request("category_search", sresp.ok, TRUE,
                   IF sresp.ok THEN "match" ELSE "failed")>>

\* the review left out
NextStageSkipReview(stage) ==
    CASE stage = "plan" -> "metadata"
      [] stage = "metadata" -> "draft"
      [] stage = "draft" -> "category"
      [] stage = "review" -> "category"
      [] stage = "category" -> "publish"

\* the statement _process_keyword goes on with after each stage returns
NextStage(stage) ==
    CASE stage = "plan" -> "metadata"
      [] stage = "metadata" -> "draft"
      [] stage = "draft" -> "review"
      [] stage = "review" -> "category"
      [] stage = "category" -> "publish"

\* a clause that names one exception class
CatchesOnlyConnection(e) == e = "ConnectionError"

\* run, line 68: `except Exception` catches every exception class of the model
RunCatches(e) == e \in {"Exception", "ConnectionError", "TypeError", "KeyError"}

locals == <<content_plan, seo_metadata, article, reviewed_article, category_id, response>>
config == <<keywords, posts_per_run, target_category>>

\* run, lines 50-53
RunStart ==
    /\ pc = "run"
    /\ selected' = select_keywords(keywords, posts_per_run)
    /\ pc' = "loop"
    /\ UNCHANGED <<xvars, lvars, mvars, config, idx, locals, post_data, exc, calls, runlog>>

\* run, lines 55-60: the next keyword, and the call of _process_keyword
LoopNext ==
    /\ pc = "loop"
    /\ idx < Len(selected)
    /\ idx' = idx + 1
    /\ runlog' = Append(runlog, Event("start", idx + 1, selected[idx + 1], ""))
    /\ calls' = <<>>
    /\ content_plan' = PyNone
    /\ seo_metadata' = PyNone
    /\ article' = PyNone
    /\ reviewed_article' = PyNone
    /\ category_id' = NoCategory
    /\ post_data' = NoPost
    /\ exc' = ""
    /\ response' = CallFailed
    /\ pc' = "plan"
    /\ UNCHANGED <<xvars, lvars, mvars, config, selected>>

\* run, line 71
RunDone ==
    /\ pc = "loop"
    /\ idx = Len(selected)
    /\ pc' = "done"
    /\ UNCHANGED <<xvars, lvars, mvars, config, selected, idx, locals, post_data, exc, calls, runlog>>

\* the wait left out after a call that gave no answer
ProceedSleepOnAnswer(stage, resp, r) ==
    /\ calls' = (IF ~r.raised /\ stage # "review" /\ resp.ok
                 THEN calls \o <<Call(stage, resp.ok, TRUE), Call("sleep", TRUE, TRUE)>>
                 ELSE Append(calls, Call(stage, resp.ok, ~r.raised)))
    /\ response' = resp
    /\ exc' = r.exc
    /\ pc' = IF r.raised THEN "except" ELSE NextStage(stage)

\* a stage's outcome: its value is stored and the next statement is reached
\* (after the time.sleep(2) that follows plan, metadata and draft), or its
\* exception leaves _process_keyword
Proceed(stage, resp, r) ==
    /\ calls' = (IF ~r.raised /\ stage # "review"
                 THEN calls \o <<Call(stage, resp.ok, TRUE), Call("sleep", TRUE, TRUE)>>
                 ELSE Append(calls, Call(stage, resp.ok, ~r.raised)))
    /\ response' = resp
    /\ exc' = r.exc
    /\ pc' = IF r.raised THEN "except" ELSE NextStage(stage)

\* _process_keyword, lines 84-88
PlanStage ==
    /\ pc = "plan"
    /\ \E resp \in Responses(PlanOutputs) :
         LET r == GeneratePlan(resp) IN
         /\ Proceed("plan", resp, r)
         /\ content_plan' = r.val
    /\ UNCHANGED <<xvars, lvars, mvars, config, selected, idx, seo_metadata, article,
                   reviewed_article, category_id, post_data, runlog>>

\* _process_keyword, lines 91-95
MetadataStage ==
    /\ pc = "metadata"
    /\ \E resp \in Responses(MetaOutputs) :
         LET r == GenerateSeoMetadata(selected[idx], content_plan, resp) IN
         /\ Proceed("metadata", resp, r)
         /\ seo_metadata' = r.val
    /\ UNCHANGED <<xvars, lvars, mvars, config, selected, idx, content_plan, article,
                   reviewed_article, category_id, post_data, runlog>>

\* _process_keyword, lines 98-102 (no call is made, and so none returns, when
\* the prompt cannot be built)
DraftStage ==
    /\ pc = "draft"
    /\ \E resp \in (IF PromptBuilds(content_plan) THEN Responses(DraftOutputs)
                    ELSE {CallFailed}) :
         LET r == GenerateArticle(content_plan, selected[idx], seo_metadata, resp) IN
         /\ Proceed("draft", resp, r)
         /\ article' = r.val
    /\ UNCHANGED <<xvars, lvars, mvars, config, selected, idx, content_plan, seo_metadata,
                   reviewed_article, category_id, post_data, runlog>>

\* _process_keyword, lines 105-106
ReviewStage ==
    /\ pc = "review"
    /\ \E resp \in Responses(ReviewOutputs) :
         LET r == ReviewContent(article, selected[idx], resp) IN
         /\ Proceed("review", resp, r)
         /\ reviewed_article' = r.val
    /\ UNCHANGED <<xvars, lvars, mvars, config, selected, idx, content_plan, seo_metadata,
                   article, category_id, post_data, runlog>>

\* a failed category request leaving _process_keyword as an exception
CategoryStagePropagates ==
    /\ pc = "category"
    /\ IF target_category = ""
       THEN /\ category_id' = NoCategory
            /\ calls' = calls
            /\ pc' = NextStage("category")
            /\ exc' = exc
       ELSE \E sresp \in SearchResponses, cresp \in CreateResponses :
            LET made == CategoryCalls(target_category, sresp, cresp) IN
            /\ category_id' = GetCategoryId(target_category, sresp, cresp)
            /\ calls' = calls \o made
            /\ IF made[Len(made)].api
               THEN pc' = NextStage("category") /\ exc' = exc
               ELSE pc' = "except" /\ exc' = "Exception"
    /\ UNCHANGED <<xvars, lvars, mvars, config, selected, idx, content_plan, seo_metadata,
                   article, reviewed_article, response, post_data, runlog>>

\* _process_keyword, lines 109-111
CategoryStage ==
    /\ pc = "category"
    /\ IF target_category = ""
       THEN /\ category_id' = NoCategory
            /\ calls' = calls
       ELSE \E sresp \in SearchResponses, cresp \in CreateResponses :
            /\ category_id' = GetCategoryId(target_category, sresp, cresp)
            /\ calls' = calls \o CategoryCalls(target_category, sresp, cresp)
    /\ pc' = NextStage("category")
    /\ UNCHANGED <<xvars, lvars, mvars, config, selected, idx, content_plan, seo_metadata,
                   article, reviewed_article, response, post_data, exc, runlog>>

\* _process_keyword, lines 113-118, and publish_post up to requests.post
PublishCall ==
    /\ pc = "publish"
    /\ post_data' = PostData(reviewed_article.val["seo_title"],
                             reviewed_article.val["content"],
                             reviewed_article.val["meta_description"],
                             category_id)
    /\ calls' = Append(calls, Request("publish", FALSE, FALSE, "sent"))
    /\ runlog' = Append(runlog, Event("publish", idx, selected[idx], ""))
    /\ pc' = "posting"
    /\ UNCHANGED <<xvars, lvars, mvars, config, selected, idx, locals, exc>>

\* publish_post, lines 72-97, and _process_keyword line 120
PublishResponse ==
    /\ pc = "posting"
    /\ \E outcome \in PostOutcomes :
         /\ exc' = PublishRaises(outcome)
         /\ pc' = IF PublishRaises(outcome) = "" THEN "cooldown" ELSE "except"
         /\ calls' = [calls EXCEPT ![Len(calls)] =
                         Request("publish", outcome \in {"created", "no_id"},
                                 PublishRaises(outcome) = "", outcome)]
    /\ UNCHANGED <<xvars, lvars, mvars, config, selected, idx, locals, post_data, runlog>>

\* run, lines 62-66: the wait between posts
Cooldown ==
    /\ pc = "cooldown"
    /\ runlog' = (IF idx < Len(selected)
                  THEN runlog \o <<Event("ok", idx, selected[idx], ""),
                                   Event("cooldown", idx, selected[idx], "")>>
                  ELSE Append(runlog, Event("ok", idx, selected[idx], "")))
    /\ pc' = "loop"
    /\ UNCHANGED <<xvars, lvars, mvars, config, selected, idx, locals, post_data, exc, calls>>

\* the stage the exception in flight left _process_keyword from
FailedAt == calls[Len(calls)].stage

\* the stage that failed tried once more before the keyword is given up
ExceptRetries ==
    /\ pc = "except"
    /\ IF Cardinality({n \in 1..Len(calls) : calls[n].stage = FailedAt}) = 1
       THEN /\ runlog' = runlog
            /\ pc' = FailedAt
       ELSE /\ runlog' = Append(runlog, Event("error", idx, selected[idx], FailedAt))
            /\ pc' = "loop"
    /\ exc' = ""
    /\ UNCHANGED <<xvars, lvars, mvars, config, selected, idx, locals, post_data, calls>>

\* run, lines 68-69: the exception is logged and the loop goes on; an
\* exception the clause does not catch leaves run
Except ==
    /\ pc = "except"
    /\ IF RunCatches(exc)
       THEN /\ runlog' = Append(runlog, Event("error", idx, selected[idx], FailedAt))
            /\ pc' = "loop"
       ELSE /\ runlog' = runlog
            /\ pc' = "raised"
    /\ exc' = ""
    /\ UNCHANGED <<xvars, lvars, mvars, config, selected, idx, locals, post_data, calls>>

----------------------------------------------------------------------------
(* main and ConfigManager *)

\* _validate_config, lines 85-90
required_settings ==
    <<"openai.api_key", "wordpress.site_url", "wordpress.username",
      "wordpress.app_password">>

\* a configuration file: each required setting is "absent" (not written),
\* "empty" (written with nothing after the equals sign) or "set"
ConfigFile(exists, settings, posts, category) ==
    [exists |-> exists, settings |-> settings,
     posts_per_run |-> posts, target_category |-> category]

\* _load_config, lines 47-53: config.get without a fallback raises for the
\* first required setting the file leaves out (0 when none is left out);
\* NoOptionError stands for NoSectionError too
FirstAbsent(f) ==
    LET left == {n \in 1..Len(required_settings) :
                    f.settings[required_settings[n]] = "absent"}
    IN IF left = {} THEN 0 ELSE MinOf(left)

\* _validate_config, lines 92-96
missing_settings(f) ==
    SelectSeq(required_settings, LAMBDA k : f.settings[k] # "set")

\* the settings read and returned as they are
LoadConfigUnvalidated(f) ==
    IF ~f.exists THEN "FileNotFoundError"
    ELSE IF FirstAbsent(f) # 0 THEN "NoOptionError"
    ELSE ""

\* _load_config: the exception it raises ("" when it returns the settings)
LoadConfigRaises(f) ==
    IF ~f.exists THEN "FileNotFoundError"
    ELSE IF FirstAbsent(f) # 0 THEN "NoOptionError"
    ELSE IF missing_settings(f) # <<>> THEN "ValueError"
    ELSE ""

\* main, lines 52-54
MainStart ==
    /\ mpc = "start"
    /\ mpc' = IF config_file.exists THEN "config" ELSE "returned"
    /\ UNCHANGED <<xvars, lvars, gvars, config_file, args_posts, merr>>

\* main, lines 58-59 and 69-70
LoadConfig ==
    /\ mpc = "config"
    /\ merr' = LoadConfigRaises(config_file)
    /\ mpc' = IF LoadConfigRaises(config_file) = "" THEN "init" ELSE "returned"
    /\ UNCHANGED <<xvars, lvars, gvars, config_file, args_posts>>

\* main, lines 62-66, and SEOContentGenerator.__init__ up to load_keywords
Construct ==
    /\ mpc = "init"
    /\ posts_per_run' = (IF args_posts # 0 THEN args_posts
                         ELSE config_file.posts_per_run)
    /\ target_category' = config_file.target_category
    /\ lpc' = "exists"
    /\ mpc' = "loading"
    /\ UNCHANGED <<xvars, keywords_file, encoding, lines, loaded, lexc, opened,
                   config_file, args_posts, merr, keywords, selected, idx, pc,
                   locals, post_data, exc, calls, runlog>>

\* SEOContentGenerator.__init__, line 44, and main, lines 67 and 69-70
Constructed ==
    /\ mpc = "loading"
    /\ lpc \in {"returned", "raised"}
    /\ IF lpc = "returned"
       THEN /\ keywords' = loaded
            /\ pc' = "run"
            /\ mpc' = "running"
            /\ merr' = merr
       ELSE /\ merr' = lexc
            /\ mpc' = "returned"
            /\ UNCHANGED <<keywords, pc>>
    /\ UNCHANGED <<xvars, lvars, config_file, args_posts, posts_per_run,
                   target_category, selected, idx, locals, post_data, exc,
                   calls, runlog>>

\* main, line 67: run returns
MainReturn ==
    /\ mpc = "running"
    /\ pc = "done"
    /\ mpc' = "returned"
    /\ UNCHANGED <<xvars, lvars, gvars, config_file, args_posts, merr>>

MIdle ==
    /\ config_file = ConfigFile(FALSE, [k \in {} |-> "absent"], 1, "")
    /\ args_posts = 0
    /\ mpc = "idle"
    /\ merr = ""

XIdle ==
    /\ text = <<>>
    /\ xpc = "idle"
    /\ xres = PyNone
    /\ xtried = <<>>

LIdle ==
    /\ keywords_file = Store(FALSE, FALSE, "utf8", <<>>)
    /\ lpc = "idle"
    /\ encoding = 1
    /\ lines = <<>>
    /\ loaded = <<>>
    /\ lexc = ""
    /\ opened = <<>>

GIdle ==
    /\ keywords = <<>>
    /\ posts_per_run = 0
    /\ target_category = ""
    /\ selected = <<>>
    /\ idx = 0
    /\ pc = "idle"
    /\ content_plan = PyNone
    /\ seo_metadata = PyNone
    /\ article = PyNone
    /\ reviewed_article = PyNone
    /\ category_id = NoCategory
    /\ post_data = NoPost
    /\ exc = ""
    /\ response = CallFailed
    /\ calls = <<>>
    /\ runlog = <<>>

\* the generator as __init__ leaves it: load_keywords returned at least one
\* keyword
Init ==
    /\ XIdle
    /\ LIdle
    /\ MIdle
    /\ \E k \in 1..MaxKeywords : keywords = [n \in 1..k |-> KeywordAt(n)]
    /\ posts_per_run \in (0 - MaxNegPosts)..MaxPosts
    /\ target_category \in {"", "Marketing"}
    /\ selected = <<>>
    /\ idx = 0
    /\ pc = "run"
    /\ content_plan = PyNone
    /\ seo_metadata = PyNone
    /\ article = PyNone
    /\ reviewed_article = PyNone
    /\ category_id = NoCategory
    /\ post_data = NoPost
    /\ exc = ""
    /\ response = CallFailed
    /\ calls = <<>>
    /\ runlog = <<>>

Next ==
    \/ RunStart
    \/ LoopNext
    \/ RunDone
    \/ PlanStage
    \/ MetadataStage
    \/ DraftStage
    \/ ReviewStage
    \/ CategoryStage
    \/ PublishCall
    \/ PublishResponse
    \/ Cooldown
    \/ Except

Spec == Init /\ [][Next]_vars

\* the largest posts_per_run of the runs that follow one keyword through its
\* stages and into the next keyword
KeywordPosts == 2

\* run asked for one or two posts: _process_keyword from its first statement
\* to the start of the keyword after it
KInit ==
    /\ XIdle
    /\ LIdle
    /\ MIdle
    /\ \E k \in 1..MaxKeywords : keywords = [n \in 1..k |-> KeywordAt(n)]
    /\ posts_per_run \in 1..KeywordPosts
    /\ target_category \in {"", "Marketing"}
    /\ selected = <<>>
    /\ idx = 0
    /\ pc = "run"
    /\ content_plan = PyNone
    /\ seo_metadata = PyNone
    /\ article = PyNone
    /\ reviewed_article = PyNone
    /\ category_id = NoCategory
    /\ post_data = NoPost
    /\ exc = ""
    /\ response = CallFailed
    /\ calls = <<>>
    /\ runlog = <<>>

SpecKeyword == KInit /\ [][Next]_vars

XInit ==
    /\ text \in Texts
    /\ xpc = "fenced"
    /\ xres = PyNone
    /\ xtried = <<>>
    /\ LIdle
    /\ MIdle
    /\ GIdle

XNext == TryFenced \/ TryBrace \/ TryWhole

SpecExtract == XInit /\ [][XNext]_vars

\* the chunks the lines of the store are made of
Chunks == {" ", "#", "a"}

\* a chunk is a whole run: two whitespace runs or two runs of other
\* characters do not stand side by side
WellFormedLine(line) ==
    \A n \in 1..(Len(line) - 1) : line[n] = "#" \/ line[n] # line[n + 1]

Lines == {line \in UNION {[1..n -> Chunks] : n \in 0..MaxLineLen} : WellFormedLine(line)}

\* a store with comments, blank lines, indented lines and duplicate lines
SampleContent ==
    <<<<"#", " ", "palavras-chave", " ">>,
      <<" ">>,
      <<"seo para iniciantes", " ">>,
      <<" ", "#", "seo", " ">>,
      <<" ", "marketing digital", ":", " ", "contexto", " ">>,
      <<>>,
      <<"seo para iniciantes", " ">>,
      <<"c", "#", " ">>>>

Contents == UNION {[1..n -> Lines] : n \in 0..MaxLines} \cup {SampleContent}

Stores ==
    {Store(TRUE, TRUE, b, ls) : b \in {"utf8", "latin", "c1"}, ls \in Contents}
        \cup {Store(FALSE, c, "utf8", <<>>) : c \in BOOLEAN}

LInit ==
    /\ keywords_file \in Stores
    /\ lpc = "exists"
    /\ encoding = 1
    /\ lines = <<>>
    /\ loaded = <<>>
    /\ lexc = ""
    /\ opened = <<>>
    /\ XIdle
    /\ MIdle
    /\ GIdle

LNext == CheckExists \/ ReadAttempt \/ FilterAndReturn

SpecLoad == LInit /\ [][LNext]_vars

\* the configuration files main is started on
ConfigFiles ==
    {ConfigFile(TRUE, s, 1, "") :
        s \in [{required_settings[n] : n \in 1..Len(required_settings)}
                 -> {"absent", "empty", "set"}]}
        \cup {ConfigFile(FALSE, [k \in {} |-> "absent"], 1, "")}

\* the keyword stores main is started on: none yet, none and no place for
\* one, and one with keywords
MainStores ==
    {Store(FALSE, TRUE, "utf8", <<>>), Store(FALSE, FALSE, "utf8", <<>>),
     Store(TRUE, TRUE, "utf8", SampleContent)}

MInit ==
    /\ config_file \in ConfigFiles
    /\ args_posts \in {0, 2}
    /\ mpc = "start"
    /\ merr = ""
    /\ keywords_file \in MainStores
    /\ lpc = "idle"
    /\ encoding = 1
    /\ lines = <<>>
    /\ loaded = <<>>
    /\ lexc = ""
    /\ opened = <<>>
    /\ XIdle
    /\ GIdle

MNext ==
    \/ MainStart
    \/ LoadConfig
    \/ Construct
    \/ LNext
    \/ Constructed
    \/ Next
    \/ MainReturn

SpecMain == MInit /\ [][MNext]_vars

----------------------------------------------------------------------------
(* Properties of run and _process_keyword, checked under Spec *)

IsStart(e) == e.e = "start"
IsPublish(e) == e.e = "publish"
IsStageCall(c) == c.stage \in {"plan", "metadata", "draft", "review", "publish"}

Starts == SelectSeq(runlog, IsStart)
Publishes == SelectSeq(runlog, IsPublish)
StageCalls == SelectSeq(calls, IsStageCall)
StageOrder == <<"plan", "metadata", "draft", "review", "publish">>

ErrorAt(n, stage) == \E m \in 1..Len(runlog) : runlog[m] = Event("error", n, selected[n], stage)
HasCall(stage) == \E m \in 1..Len(calls) : calls[m].stage = stage

\* C1: whatever fails at whatever stage, run starts every selected keyword
\* exactly once, in the order of the selection, and no exception leaves run:
\* the keywords started so far are exactly the first idx of the selection,
\* when run returns all of them were started, and until it returns it has a
\* next step to take.
C1_RunVisitsAll ==
    LET started == Starts IN
    /\ pc # "raised"
    /\ Len(started) = idx
    /\ \A n \in 1..Len(started) : started[n].n = n /\ started[n].kw = selected[n]
    /\ pc = "done" => idx = Len(selected)
    /\ pc # "done" => ENABLED Next

C1_Witness ==
    /\ pc = "done"
    /\ Len(selected) = 3
    /\ ErrorAt(1, "plan")
    /\ ErrorAt(2, "publish")
    /\ \E m \in 1..Len(runlog) : runlog[m].e = "ok" /\ runlog[m].n = 3

ReviewCallFailed == \E m \in 1..Len(calls) : calls[m].stage = "review" /\ ~calls[m].api

StageFailed(stage) ==
    \E m \in 1..Len(calls) : calls[m].stage = stage /\ (~calls[m].api \/ ~calls[m].ret)

\* C3: when plan generation fails, the plan call is the only call made for
\* the keyword (no metadata, draft, review, category or publish call), no
\* payload is built, and run goes on with the next selected keyword.
C3_PlanFailureAborts ==
    StageFailed("plan") =>
        /\ Len(calls) = 1
        /\ post_data = NoPost
        /\ pc \in {"except", "loop", "done"}
        /\ (pc = "loop" /\ idx < Len(selected)) => ENABLED LoopNext
        /\ pc = "done" => idx = Len(selected)

C3_Witness ==
    /\ StageFailed("plan")
    /\ pc = "loop"
    /\ idx = 1
    /\ Len(selected) = 2
    /\ ErrorAt(1, "plan")

DraftCallsAllowed == {"plan", "sleep", "metadata", "draft"}

\* C4: when draft generation fails, no review, category or publish call is
\* made for the keyword, no payload is built, and run goes on with the next
\* selected keyword.
C4_DraftFailureAborts ==
    StageFailed("draft") =>
        /\ \A m \in 1..Len(calls) : calls[m].stage \in DraftCallsAllowed
        /\ calls[Len(calls)].stage = "draft"
        /\ post_data = NoPost
        /\ pc \in {"except", "loop", "done"}
        /\ (pc = "loop" /\ idx < Len(selected)) => ENABLED LoopNext
        /\ pc = "done" => idx = Len(selected)

C4_Witness ==
    /\ StageFailed("draft")
    /\ pc = "loop"
    /\ idx = 1
    /\ Len(selected) = 2
    /\ ErrorAt(1, "draft")

NoGenerationFailure ==
    \A m \in 1..Len(runlog) :
        runlog[m].e = "error" => runlog[m].at \notin {"plan", "metadata", "draft"}

\* C5: with K keywords and posts_per_run = N >= 0, a run in which no
\* generation stage failed has started min(N, K) keywords and attempted
\* min(N, K) publish calls, the n-th for the n-th keyword, also when some of
\* the publish calls raised.
C5_PublishPerKeyword ==
    (pc = "done" /\ posts_per_run >= 0 /\ NoGenerationFailure) =>
        LET published == Publishes IN
        /\ Len(Starts) = Min(posts_per_run, Len(keywords))
        /\ Len(published) = Min(posts_per_run, Len(keywords))
        /\ \A n \in 1..Len(published) :
              published[n].n = n /\ published[n].kw = keywords[n]

C5_Witness ==
    /\ pc = "done"
    /\ NoGenerationFailure
    /\ Len(keywords) = 3
    /\ posts_per_run = 2
    /\ ErrorAt(1, "publish")
    /\ Len(Publishes) = 2

NonEmptyStr(v) == v.kind = "str" /\ v.val # <<>>

\* C6: whenever publish_post is invoked, the title and the content handed to
\* it are non-empty.
C6_PublishedNonEmpty ==
    pc = "posting" => NonEmptyStr(post_data.title) /\ NonEmptyStr(post_data.content)

\* C7: the stage calls made for a keyword are a prefix of plan, metadata,
\* draft, review, publish; each but the last has returned; the statement in
\* hand is the one that follows them; and publish is invoked only with the
\* record the review stage returned.
C7_StagesInOrder ==
    LET made == StageCalls IN
    /\ Len(made) <= Len(StageOrder)
    /\ \A n \in 1..Len(made) : made[n].stage = StageOrder[n]
    /\ \A n \in 1..(Len(made) - 1) : made[n].ret
    /\ pc = "plan" => Len(made) = 0
    /\ pc = "metadata" => Len(made) = 1
    /\ pc = "draft" => Len(made) = 2
    /\ pc = "review" => Len(made) = 3
    /\ pc \in {"category", "publish"} => Len(made) = 4
    /\ pc = "posting" => Len(made) = 5
    /\ HasCall("publish") =>
          /\ reviewed_article.kind = "dict"
          /\ DOMAIN reviewed_article.val =
                {"seo_title", "content", "meta_description", "friendly_url"}
          /\ post_data.title = reviewed_article.val["seo_title"]
          /\ post_data.content = reviewed_article.val["content"]

C7_Witness ==
    /\ pc = "posting"
    /\ Len(StageCalls) = 5
    /\ idx = 2

\* C13: with K keywords and a count N >= 0, what select_keywords returned to
\* run has min(N, K) items, the n-th being the n-th keyword of the list: all
\* K of them when N > K, none twice, nothing added.
C13_SelectsFirstN ==
    (pc # "run" /\ posts_per_run >= 0) =>
        /\ Len(selected) = (IF posts_per_run > Len(keywords) THEN Len(keywords)
                            ELSE posts_per_run)
        /\ \A n \in 1..Len(selected) : selected[n] = keywords[n]

C13_Witness ==
    /\ pc = "loop"
    /\ idx = 0
    /\ posts_per_run = 3
    /\ Len(keywords) = 2
    /\ selected = keywords

IsCategoryCall(c) == c.stage \in {"category_search", "category_create"}
CategoryRequests == SelectSeq(calls, IsCategoryCall)

SearchEnded(how) ==
    \E m \in 1..Len(calls) : calls[m].stage = "category_search" /\ calls[m].how = how
CreateEnded(how) ==
    \E m \in 1..Len(calls) : calls[m].stage = "category_create" /\ calls[m].how = how

\* entry n of a search result is the first whose name is the requested name,
\* letter case aside
IsFirstNamed(cats, n, name) ==
    /\ Lower(cats[n].name) = Lower(name)
    /\ \A m \in 1..(n - 1) : Lower(cats[m].name) # Lower(name)

\* the ids get_category_id may return for a search result that names the
\* category, and the ids a create call may answer
NamedIds(name) ==
    UNION {{r.cats[n].id : n \in {k \in 1..Len(r.cats) : IsFirstNamed(r.cats, k, name)}} :
              r \in {x \in SearchResponses : x.ok}}
CreatedIds == {r.id : r \in {x \in CreateResponses : x.ok}}

\* C15: when the search result names the category (letter case aside),
\* get_category_id returns the id of the first entry that does and issues no
\* create call; a create call is issued only after a search that returned no
\* match, and then the id returned is the created one (none when the create
\* call failed).
C15_FirstMatchOrCreate ==
    pc \in {"publish", "posting", "cooldown", "except"} =>
        LET made == CategoryRequests IN
        /\ SearchEnded("match") =>
              /\ category_id \in NamedIds(target_category)
              /\ Len(made) = 1
        /\ \A m \in 1..Len(made) :
              made[m].stage = "category_create" =>
                  m = 2 /\ made[1].how = "no_match"
        /\ SearchEnded("no_match") =>
              /\ Len(made) = 2
              /\ made[2].stage = "category_create"
              /\ CreateEnded("created") => category_id \in CreatedIds
              /\ CreateEnded("failed") => category_id = NoCategory

C15_Witness ==
    /\ pc = "publish"
    /\ target_category = "Marketing"
    /\ SearchEnded("match")
    /\ category_id = 3

\* C16: when the search returns no match, the requests made to resolve the
\* category are one search and then one create, and whenever category
\* resolution returned an id the payload handed to POST /posts has
\* categories = [id].
C16_SearchCreatePublish ==
    /\ SearchEnded("no_match") =>
          LET made == CategoryRequests IN
          /\ Len(made) = 2
          /\ made[1].stage = "category_search"
          /\ made[2].stage = "category_create"
    /\ (HasCall("publish") /\ category_id # NoCategory) =>
          post_data.categories = <<category_id>>

C16_Witness ==
    /\ pc = "posting"
    /\ SearchEnded("no_match")
    /\ CreateEnded("created")
    /\ category_id = 9
    /\ post_data.categories = <<9>>

CategoryRequestFailed ==
    \E m \in 1..Len(calls) : IsCategoryCall(calls[m]) /\ ~calls[m].api

\* C17: when the search request or the create request fails, get_category_id
\* returns no category and raises nothing: the keyword goes on to publish,
\* the publish call is made, and its payload has no categories.
C17_CategoryFailureStillPublishes ==
    CategoryRequestFailed =>
        /\ category_id = NoCategory
        /\ pc \in {"publish", "posting", "cooldown", "except", "loop", "done"}
        /\ pc = "publish" => ENABLED PublishCall
        /\ pc # "publish" =>
              /\ HasCall("publish")
              /\ post_data # NoPost
              /\ post_data.categories = <<>>

C17_Witness ==
    /\ pc = "posting"
    /\ SearchEnded("no_match")
    /\ CreateEnded("failed")
    /\ post_data.categories = <<>>
    /\ Truthy(post_data.title)

PublishEnded(how) ==
    \E m \in 1..Len(calls) : calls[m].stage = "publish" /\ calls[m].how = how

\* C18: the exception publish_post raises tells its cause by its type: the
\* type raised for an HTTP error status is neither the type raised for a
\* connection failure nor the generic type raised for any other failure.
C18_FailureTypesDistinct ==
    pc = "except" =>
        /\ PublishEnded("http_error") => exc \notin {"Exception", "ConnectionError"}
        /\ PublishEnded("connection_error") => exc = "ConnectionError"
        /\ PublishEnded("no_id") => exc = "Exception"

\* C19: publish_post returns only when the answer is a created record with
\* an id; when the post is accepted but the record has no id it raises, and
\* the keyword is logged as failed, not as published.
C19_ReturnsOnlyWithId ==
    /\ pc = "cooldown" => PublishEnded("created")
    /\ \A m \in 1..Len(calls) :
          (calls[m].stage = "publish" /\ calls[m].how # "sent") =>
              (calls[m].ret <=> calls[m].how = "created")
    /\ PublishEnded("no_id") =>
          /\ pc \in {"except", "loop", "done"}
          /\ pc = "except" => exc = "Exception"
          /\ pc # "except" => ErrorAt(idx, "publish")

C19_Witness ==
    /\ pc = "loop"
    /\ PublishEnded("no_id")
    /\ ErrorAt(idx, "publish")
    /\ post_data # NoPost

\* C20: every keyword but the first is started right after the cooldown that
\* follows the keyword before it, whether that keyword was published or
\* failed, and no cooldown follows the last keyword.
C20_CooldownBetweenAll ==
    /\ \A m \in 2..Len(runlog) :
          runlog[m].e = "start" =>
              runlog[m - 1].e = "cooldown" /\ runlog[m - 1].n = runlog[m].n - 1
    /\ \A m \in 1..Len(runlog) :
          runlog[m].e = "cooldown" => runlog[m].n < Len(selected)

----------------------------------------------------------------------------
(* Properties of _process_keyword, checked under SpecKeyword, and of        *)
(* select_keywords with any count, checked under Spec                       *)

GenerationStages == {"plan", "metadata", "draft", "review"}

\* C22: within one keyword, a wait stands between every two consecutive
\* generation calls (plan, metadata, draft, review), whatever the earlier call
\* gave: structured data, defaults, or, for metadata, a failure answered by
\* the fallback record.
\* (every generation call but the first entry of the history stands right
\* after a wait, and the wait right after the generation call before it)
C22_DelayBetweenGenerationCalls ==
    \A b \in 2..Len(calls) :
        calls[b].stage \in GenerationStages =>
            /\ b >= 3
            /\ calls[b - 1].stage = "sleep"
            /\ calls[b - 2].stage \in GenerationStages

\* the metadata call failed, the fallback record was returned, and the draft
\* call followed
C22_Witness ==
    /\ Len(calls) >= 5
    /\ calls[3] = Call("metadata", FALSE, TRUE)
    /\ calls[4] = Call("sleep", TRUE, TRUE)
    /\ calls[5].stage = "draft" /\ calls[5].api

\* C23: no stage is retried. For each selected keyword occurrence
\* _process_keyword is entered once, each of plan, metadata, draft and review
\* issues at most one generation call, and publish is attempted at most once,
\* whether the call succeeds or fails.
C23_NoStageRetried ==
    /\ \A a \in 1..Len(calls) :
           calls[a].stage \in GenerationStages \cup {"publish"} =>
               \A b \in (a + 1)..Len(calls) : calls[b].stage # calls[a].stage
    /\ \A m \in 1..Len(runlog) :
           runlog[m].e \in {"start", "publish"} =>
               \A k \in (m + 1)..Len(runlog) :
                   runlog[k].e # runlog[m].e \/ runlog[k].n # runlog[m].n

\* the publish request failed and run went on to the next keyword: one
\* attempt was made
C23_Witness ==
    /\ pc = "plan"
    /\ idx = 2
    /\ ErrorAt(1, "publish")
    /\ Cardinality({m \in 1..Len(runlog) : runlog[m].e = "publish"}) = 1

\* the plan stage has just ended, and `response` is the answer of its call
PlanEnded == pc = "metadata" \/ (pc = "except" /\ FailedAt = "plan")

\* what the plan call's output was extracted to
PlanData == extract_json_from_text(response.content)

\* C24: when the output of the plan call yields a mapping (structured, or the
\* raw_content sentinel of unstructured output), the plan stage succeeds and
\* its record has exactly the seven fields, each holding the value under its
\* Portuguese key when that key is present, otherwise the value under its
\* English key, otherwise its default (an empty list for the five list
\* fields, an empty string for friendly_url and meta_description); prose
\* gives the all-default plan and the keyword goes on.
C24_PlanFieldsByLanguage ==
    (PlanEnded /\ response.ok /\ PlanData.kind = "dict") =>
        /\ pc = "metadata"
        /\ content_plan.kind = "dict"
        /\ DOMAIN content_plan.val = PlanFieldsList \cup PlanFieldsStr
        /\ \A f \in DOMAIN content_plan.val :
               content_plan.val[f] =
                   IF PtKey(f) \in DOMAIN PlanData.val THEN PlanData.val[PtKey(f)]
                   ELSE IF f \in DOMAIN PlanData.val THEN PlanData.val[f]
                   ELSE IF f \in PlanFieldsList THEN PyList(<<>>)
                   ELSE PyStr(<<>>)
        /\ DOMAIN PlanData.val = {"raw_content"} =>
               \A f \in DOMAIN content_plan.val :
                   content_plan.val[f] \in {PyList(<<>>), PyStr(<<>>)}

\* the output named the titles under both keys, the meta description under
\* the Portuguese key only and the URL under the English key only
C24_Witness ==
    /\ pc = "metadata"
    /\ response.ok
    /\ PlanData.kind = "dict"
    /\ {"titulos", "title_suggestions"} \subseteq DOMAIN PlanData.val
    /\ content_plan.val["title_suggestions"] = PlanData.val["titulos"]
    /\ PlanData.val["titulos"] # PlanData.val["title_suggestions"]
    /\ content_plan.val["friendly_url"] = PlanData.val["friendly_url"]
    /\ content_plan.val["subtopics"] = PyList(<<>>)

\* the metadata stage has just ended on a call that failed
MetadataCallFailed ==
    /\ pc = "draft" \/ (pc = "except" /\ FailedAt = "metadata")
    /\ ~response.ok

\* C25: a failure of the metadata call never aborts the keyword. For every
\* content plan the plan stage can produce, _generate_seo_metadata returns a
\* complete fallback record (the first title suggestion of the plan, or the
\* default title built from the keyword when the plan has none; the meta
\* description and the friendly URL of the plan), and the draft stage is next.
C25_MetadataFailureNeverAborts ==
    MetadataCallFailed =>
        /\ pc = "draft"
        /\ seo_metadata.kind = "dict"
        /\ DOMAIN seo_metadata.val = {"seo_title", "meta_description", "friendly_url"}
        /\ seo_metadata.val["seo_title"] =
               (IF Truthy(content_plan.val["title_suggestions"])
                THEN content_plan.val["title_suggestions"].val[1]
                ELSE DefaultTitle(selected[idx]))
        /\ seo_metadata.val["meta_description"] = content_plan.val["meta_description"]
        /\ seo_metadata.val["friendly_url"] = content_plan.val["friendly_url"]

\* C27: for every keyword list and every integer count, zero and negative
\* values of posts_per_run included, select_keywords returns at most
\* max(count, 0) items, so a count that is not positive makes run process no
\* keyword and issue no generation or publish call.
C27_AtMostCountSelected ==
    pc # "run" =>
        /\ Len(selected) <= Max(posts_per_run, 0)
        /\ posts_per_run <= 0 => (idx = 0 /\ calls = <<>> /\ runlog = <<>>)

\* what the review call's output was extracted to, once the review stage ended
ReviewData == extract_json_from_text(response.content)

\* the review output holds structured data with one of the keys looked for
HasReviewKeys ==
    ReviewData.kind = "dict" /\ ReviewKeys \cap DOMAIN ReviewData.val # {}

\* C26: when the review call succeeds and its output holds no structured data
\* with any of the keys meta_description, seo_title, title, friendly_url, the
\* reviewed record keeps the draft's title, meta description and friendly URL
\* and only its content is replaced, by the whole review output; in every
\* case the reviewed record is complete, with all four fields.
C26_ReviewReplacesOnlyContent ==
    pc = "category" =>
        /\ reviewed_article.kind = "dict"
        /\ DOMAIN reviewed_article.val =
               {"seo_title", "content", "meta_description", "friendly_url"}
        /\ (response.ok /\ ~HasReviewKeys) =>
               /\ \A f \in {"seo_title", "meta_description", "friendly_url"} :
                      reviewed_article.val[f] = article.val[f]
               /\ reviewed_article.val["content"] = PyStr(response.content)

----------------------------------------------------------------------------
(* Properties of extract_json_from_text, checked under SpecExtract *)

\* the json-tagged fenced blocks of s: an opening ```json and the next ```
JsonBlocks(s) ==
    {blk \in (1..Len(s)) \X (1..Len(s)) :
        /\ blk[1] < blk[2]
        /\ IsFenceJson(s[blk[1]])
        /\ IsBackticks(s[blk[2]])
        /\ \A m \in (blk[1] + 1)..(blk[2] - 1) : ~IsBackticks(s[m])}

Interior(s, blk) == SubSeq(s, blk[1] + 1, blk[2] - 1)

ValidBlocks(s) == {blk \in JsonBlocks(s) : JsonLoads(Interior(s, blk)).ok}

IsFirstBlock(s, blk) == \A m \in 1..(blk[1] - 1) : ~IsFenceJson(s[m])

\* the span from the first { to the last } parses
BraceSpanParses(s) ==
    \E a, b \in 1..Len(s) :
        /\ a < b
        /\ IsLBrace(s[a]) /\ \A m \in 1..(a - 1) : ~IsLBrace(s[m])
        /\ IsRBrace(s[b]) /\ \A m \in (b + 1)..Len(s) : ~IsRBrace(s[m])
        /\ JsonLoads(SubSeq(s, a, b)).ok

\* C8 as stated: a text that holds a json-tagged fenced block with a valid
\* interior yields the value parsed from such a block.
C8_AnyValidBlock ==
    (xpc = "returned" /\ ValidBlocks(text) # {}) =>
        \E blk \in ValidBlocks(text) : xres = JsonLoads(Interior(text, blk)).val

\* C8 as amended: when the first json-tagged fence of the text opens a block
\* with a valid interior, the value parsed from that block is returned,
\* whatever precedes or follows the block.
C8_FirstValidBlock ==
    xpc = "returned" =>
        \A blk \in ValidBlocks(text) :
            IsFirstBlock(text, blk) => xres = JsonLoads(Interior(text, blk)).val

C8_Witness ==
    /\ xpc = "returned"
    /\ Len(text) = 5
    /\ IsLBrace(text[1])
    /\ \E blk \in ValidBlocks(text) : IsFirstBlock(text, blk) /\ blk[1] = 2
    /\ xres = EmptyDict

NothingParses(s) ==
    /\ ValidBlocks(s) = {}
    /\ ~BraceSpanParses(s)
    /\ ~JsonLoads(s).ok

\* C9: when no fenced block, no first-brace-to-last-brace span and not the
\* whole text parses, the result is a mapping with the one key raw_content,
\* whose value is the input text verbatim.
C9_RawContentVerbatim ==
    (xpc = "returned" /\ NothingParses(text)) =>
        /\ xres.kind = "dict"
        /\ DOMAIN xres.val = {"raw_content"}
        /\ xres.val["raw_content"] = PyStr(text)

C9_Witness ==
    /\ xpc = "returned"
    /\ NothingParses(text)
    /\ Len(text) = 5
    /\ IsWs(text[1])
    /\ \E m \in 1..Len(text) : IsFenceJson(text[m])
    /\ \E m \in 1..Len(text) : IsLBrace(text[m])
    /\ xres.val["raw_content"] = PyStr(text)

\* C10: the result of extract_json_from_text is always a mapping.
C10_AlwaysMapping ==
    xpc = "returned" => xres.kind = "dict"


\* the three sources of a text, described from the text alone
SourceOrder == <<"fenced", "brace", "whole">>

Absent == [present |-> FALSE, ok |-> FALSE, val |-> PyNone]
Parsed(g) == [present |-> TRUE, ok |-> JsonLoads(g).ok, val |-> JsonLoads(g).val]

\* the block the first json-tagged fence opens
FirstJsonBlock(s) == {blk \in JsonBlocks(s) : IsFirstBlock(s, blk)}

\* the spans from the first { to the last }
BraceSpans(s) ==
    {sp \in (1..Len(s)) \X (1..Len(s)) :
        /\ sp[1] < sp[2]
        /\ IsLBrace(s[sp[1]]) /\ \A m \in 1..(sp[1] - 1) : ~IsLBrace(s[m])
        /\ IsRBrace(s[sp[2]]) /\ \A m \in (sp[2] + 1)..Len(s) : ~IsRBrace(s[m])}

SourceOf(s, name) ==
    CASE name = "fenced" ->
            IF FirstJsonBlock(s) = {} THEN Absent
            ELSE Parsed(Interior(s, CHOOSE blk \in FirstJsonBlock(s) : TRUE))
      [] name = "brace" ->
            IF BraceSpans(s) = {} THEN Absent
            ELSE LET sp == CHOOSE x \in BraceSpans(s) : TRUE IN
                 Parsed(SubSeq(s, sp[1], sp[2]))
      [] name = "whole" -> Parsed(s)

\* the sources in order that parse
Parsing(s) == {n \in 1..Len(SourceOrder) : SourceOf(s, SourceOrder[n]).ok}

\* the sources that are present and have no parsing source before them
Attempted(s) ==
    LET Reached(name) ==
            /\ SourceOf(s, name).present
            /\ \A n \in Parsing(s) : \A m \in 1..Len(SourceOrder) :
                  SourceOrder[m] = name => m <= n
    IN SelectSeq(SourceOrder, Reached)

\* C11: the sources are tried in the order fenced block, brace span, whole
\* input; a source is tried exactly when it is present and no earlier source
\* parsed; the result is the value of the first source that parses, and the
\* sentinel mapping when none does.  The function the generator calls gives
\* the same result as the step-by-step run.
C11_FirstParsingSourceWins ==
    xpc = "returned" =>
        /\ xtried = Attempted(text)
        /\ xres = (IF Parsing(text) = {} THEN RawContent(text)
                   ELSE SourceOf(text, SourceOrder[MinOf(Parsing(text))]).val)
        /\ extract_json_from_text(text) = xres

C11_Witness ==
    /\ xpc = "returned"
    /\ SourceOf(text, "fenced").ok
    /\ SourceOf(text, "brace").ok
    /\ SourceOf(text, "brace").val # SourceOf(text, "fenced").val
    /\ IsLBrace(text[1])
    /\ xtried = <<"fenced">>
    /\ xres = SourceOf(text, "fenced").val

----------------------------------------------------------------------------
(* Properties of load_keywords, checked under SpecLoad *)

\* where the characters of a line that are no whitespace stand
Inked(line) == {n \in 1..Len(line) : ~IsSpace(line[n])}

\* the line without its leading and trailing whitespace
Trimmed(line) ==
    IF Inked(line) = {} THEN <<>>
    ELSE SubSeq(line, MinOf(Inked(line)), MaxOf(Inked(line)))

\* the lines of the store that are neither blank nor a comment
KeptAt(ls) ==
    {n \in 1..Len(ls) : Inked(ls[n]) # {} /\ ls[n][MinOf(Inked(ls[n]))] # "#"}

\* the k-th of them, in file order
KthKept(ls, k) ==
    CHOOSE n \in KeptAt(ls) : Cardinality({m \in KeptAt(ls) : m <= n}) = k

\* C12: what load_keywords returns is, line for line and in file order, the
\* trimmed text of every line of the store that is neither blank nor a
\* comment: as many items as there are such lines (duplicates included), the
\* k-th item being the k-th such line trimmed.
C12_LoadFiltersInOrder ==
    lpc = "returned" =>
        /\ Len(loaded) = Cardinality(KeptAt(keywords_file.lines))
        /\ \A k \in 1..Len(loaded) :
              loaded[k] = Trimmed(keywords_file.lines[KthKept(keywords_file.lines, k)])

C12_Witness ==
    /\ lpc = "returned"
    /\ keywords_file.lines = SampleContent
    /\ keywords_file.bytes = "latin"
    /\ Len(loaded) = 4
    /\ loaded[1] = <<"seo para iniciantes">>
    /\ loaded[3] = loaded[1]
    /\ loaded[4] = <<"c", "#">>

Finished == lpc \in {"returned", "raised"}

\* the store was decoded: the last encoding it was opened with decodes it
WasDecoded ==
    opened # <<>> /\ Decodes(keywords_file, opened[Len(opened)])

NoEncodingDecodes ==
    \A n \in 1..Len(encodings) : ~Decodes(keywords_file, encodings[n])

FilterLeavesNothing == WasDecoded /\ KeptAt(keywords_file.lines) = {}

\* the encodings are tried in their order, each after the ones before it
\* failed, and none after one that decoded
TriedInOrder ==
    /\ Len(opened) <= Len(encodings)
    /\ \A n \in 1..Len(opened) : opened[n] = encodings[n]
    /\ \A n \in 1..(Len(opened) - 1) : ~Decodes(keywords_file, opened[n])
    /\ lpc \in {"filter", "returned"} => WasDecoded

----------------------------------------------------------------------------
(* Properties of main and ConfigManager, checked under SpecMain *)

\* a required setting is absent or empty (a file that does not exist holds none)
Incomplete(f) ==
    ~f.exists \/ \E n \in 1..Len(required_settings) :
                    f.settings[required_settings[n]] # "set"

\* C21: when one of the four required settings is absent or empty, loading the
\* configuration raises an error, main stops with that error logged, and
\* nothing behind it happens: the keyword store is never opened, no keyword is
\* loaded, and run makes no generation call and no content-API request.
C21_IncompleteConfigStops ==
    Incomplete(config_file) =>
        /\ LoadConfigRaises(config_file) # ""
        /\ mpc \in {"start", "config", "returned"}
        /\ (mpc = "returned" /\ config_file.exists) =>
               merr \in {"NoOptionError", "ValueError"}
        /\ lpc = "idle" /\ opened = <<>> /\ loaded = <<>>
        /\ keywords = <<>>
        /\ pc = "idle" /\ calls = <<>> /\ runlog = <<>>

\* main has stopped on a file whose settings are all written, one of them empty
C21_Witness ==
    /\ mpc = "returned"
    /\ config_file.exists
    /\ FirstAbsent(config_file) = 0
    /\ missing_settings(config_file) = <<"wordpress.app_password">>
    /\ merr = "ValueError"
    /\ keywords = <<>>

============================================================================
